---- MODULE Spec2Model ----
(***************************************************************************)
(* The BZFlag client: BaseClient (connection and hello handshake) and      *)
(* StatefulClient (flag negotiation, world hash, cached or chunked world   *)
(* download).  One action per method or message handler; every action      *)
(* records in `out` the externally visible effects of the handler, in      *)
(* program order, and in `step` the handler and the input it was given.    *)
(***************************************************************************)
EXTENDS Integers, Sequences, FiniteSets, TLC

\* ------------------------------------------------------------------ bounds
MaxConnects  == 2   \* connect() calls that open a socket
MaxNegotiate == 2   \* empty MsgNegotiateFlags responses per connection
MaxDownloads == 2   \* downloadWorld() calls
MaxBuf       == 2   \* bytes held by binaryWorld

\* ------------------------------------------------------------- value sets
NoSocket   == 0             \* self.tcp / self.udp / self.multicast = None
NoAttr     == "unset"       \* a string attribute that was never assigned
Unset      == {}            \* a value that is absent: never assigned, del'ed
Val(x)     == {x}           \* a value that is present
Get(o)     == CHOOSE x \in o : TRUE
Servers    == {"", "srv"}   \* connect() arguments; "" is the falsy one
Versions   == {"v1", "v2"}
ClientIds  == {7, 8}
Hashes     == {"h1", "h2"}
Lifetimes  == {"permanent", "temporary"}
Bytes      == {"A", "X"}
Payloads   == {<<"A">>, <<"X">>, <<"A", "X">>}
Remainings == {0, 1}        \* msg.remaining: bytes the server still holds
Pad        == "_"
FlagData   == {<<>>, <<"C", Pad, "G", "M">>}
PlayerIds  == {1, 2}        \* msg.id of the player messages
PlayerData == {"p", "q"}    \* the fields a player message carries
FlagNums   == {0, 1}        \* msg.flagNum
FlagStates == {"onGround", "onTank"}

protocolVersion == "v1"

\* ----------------------------------------------------------------- state
VARIABLES
  tcp, udp, multicast,      \* BaseClient transports (socket number or NoSocket)
  connected,                \* BaseClient.connected (0 / 1)
  id,                       \* BaseClient.id, set by the hello packet
  handler,                  \* self.tcp.handler of the current socket
  sources,                  \* sockets registered with the event loop
  running,                  \* the event loop is running
  worldCache,               \* StatefulClient.worldCache ("None" or "Cache")
  worldHash,                \* StatefulClient.worldHash
  binaryWorld,              \* StatefulClient.binaryWorld (Unset or Val(bytes))
  worldDownloaded,          \* StatefulClient.worldDownloaded
  world,                    \* bytes last decoded into game.world
  players,                  \* game.players: player id -> Player
  flags,                    \* game.flags: flag number -> Flag
  cache,                    \* the persistent store behind World.Cache
  \* history, not program state
  nConnects,                \* sockets opened so far
  helloSock,                \* socket on which a matching hello was last decoded
  negEmpty,                 \* empty MsgNegotiateFlags received on this connection
  wantSent,                 \* MsgWantWHash written on this connection
  nDownloads,               \* downloadWorld() calls so far
  dlStarted,                \* downloadWorld() calls on this connection
  outstanding,              \* MsgGetWorld written and not yet answered
  received,                 \* payloads appended since downloadWorld(), joined
  lastWHash,                \* the last MsgWantWHash response: its lifetime, and
                            \* whether the cache held its hash
  step,                     \* the operation last run and its input
  out                       \* its effects, in program order

vars == <<tcp, udp, multicast, connected, id, handler, sources, running,
          worldCache, worldHash, binaryWorld, worldDownloaded, world, cache,
          players, flags,
          nConnects, helloSock, negEmpty, wantSent, nDownloads,
          dlStarted, outstanding, received, lastWHash, step, out>>

baseVars  == <<tcp, udp, multicast, connected, id, handler, sources, running>>
worldVars == <<worldCache, worldHash, binaryWorld, worldDownloaded, world, cache>>
connHist  == <<nConnects, helloSock, negEmpty, wantSent, dlStarted, outstanding>>
dlHist    == <<nDownloads, received, lastWHash>>
gameVars  == <<players, flags>>

\* --------------------------------------------------------------- effects
Write(sock, msg) == [op |-> "write", sock |-> sock, msg |-> msg]
Emit(ev)         == [op |-> "emit", ev |-> ev]
Raise(err, info) == [op |-> "raise", err |-> err, info |-> info]
SockOp(o, sock)  == [op |-> o, sock |-> sock]
CacheOp(o, h)    == [op |-> o, hash |-> h]
Store(h, data)   == [op |-> "storeWorld", hash |-> h, data |-> data]
Load(data)       == [op |-> "loadBinary", data |-> data]
Del(attr)        == [op |-> "del", attr |-> attr]

\* The messages of one type among the effects `o`, in order.
Written(o, type) ==
  SelectSeq(o, LAMBDA e : e.op = "write" /\ e.msg.type = type)
GetWorlds(o) == Written(o, "MsgGetWorld")

Init ==
  /\ tcp = NoSocket /\ udp = NoSocket /\ multicast = NoSocket
  /\ connected = 0
  /\ id = Unset
  /\ handler = NoAttr
  /\ sources = {}
  /\ running = FALSE
  /\ worldCache = "None"
  /\ worldHash = NoAttr
  /\ binaryWorld = Unset
  /\ worldDownloaded = Unset
  /\ world = Unset
  /\ cache = [h \in Hashes |-> Unset]
  /\ players = [p \in PlayerIds |-> Unset]
  /\ flags = [n \in FlagNums |-> Unset]
  /\ nConnects = 0 /\ helloSock = NoSocket
  /\ negEmpty = 0 /\ wantSent = 0 /\ nDownloads = 0
  /\ dlStarted = 0 /\ outstanding = 0
  /\ received = <<>>
  /\ lastWHash = [lifetime |-> NoAttr, hit |-> FALSE]
  /\ step = [act |-> "init"]
  /\ out = <<>>

\* ---------------------------------------------------------- BaseClient
\* `raise Errors.ProtocolError(...)`: the error leaves the handler and
\* nothing else is done (the variant announces a disconnect first).
protocolError_disconnects(info) ==
  <<Emit("onDisconnect"), Raise("ProtocolError", info)>>

protocolError(info) == <<Raise("ProtocolError", info)>>

\* BaseClient.onDisconnect: the default observer stops the event loop.
onDisconnect == <<Emit("onDisconnect"), [op |-> "eventLoop.stop"]>>

\* disconnect() without its `self.connected = 0`.
disconnected_keepsConnected ==
  [tcp |-> NoSocket, udp |-> NoSocket, multicast |-> NoSocket,
   connected |-> connected,
   sources |-> sources \ {tcp, udp}, running |-> FALSE,
   out |-> (IF tcp # NoSocket
              THEN <<SockOp("close", tcp), SockOp("eventLoop.remove", tcp)>>
              ELSE <<>>)
           \o onDisconnect]

\* `if self.tcp:` taken whether or not a socket is held, and never taken.
hasSocket_always(sock) == TRUE

hasSocket_never(sock) == FALSE

\* `if self.tcp:` / `if self.udp:`, the test of disconnect() and connect().
hasSocket(sock) == sock # NoSocket

\* The state disconnect() leaves behind and the effects it has.
disconnected ==
  [tcp |-> NoSocket, udp |-> NoSocket, multicast |-> NoSocket, connected |-> 0,
   sources |-> sources \ {tcp, udp}, running |-> FALSE,
   out |-> (IF hasSocket(tcp)
              THEN <<SockOp("close", tcp), SockOp("eventLoop.remove", tcp)>>
              ELSE <<>>)
           \o (IF hasSocket(udp)
                 THEN <<SockOp("close", udp), SockOp("eventLoop.remove", udp)>>
                 ELSE <<>>)
           \o onDisconnect]

disconnect ==
  /\ tcp' = disconnected.tcp
  /\ udp' = disconnected.udp
  /\ multicast' = disconnected.multicast
  /\ connected' = disconnected.connected
  /\ sources' = disconnected.sources
  /\ running' = disconnected.running
  /\ handler' = NoAttr
  /\ outstanding' = 0
  /\ step' = [act |-> "disconnect"]
  /\ out' = disconnected.out
  /\ UNCHANGED <<id, worldVars, gameVars, dlHist, nConnects, helloSock,
                 negEmpty, wantSent, dlStarted>>

\* The handler connect() installs on the new socket (generic dispatch at
\* once, in the variant).
firstHandler_dispatch == "handleMessage"

firstHandler == "handleHelloPacket"

\* connect() taking any argument for a server.
noServer_unchecked(server) == FALSE

\* `if not server:`, the test of connect().
noServer(server) == server = ""

connect(server) ==
  IF noServer(server)
    THEN /\ step' = [act |-> "connect", server |-> server]
         /\ out' = <<Raise("NetworkException", <<"A server must be specified">>)>>
         /\ UNCHANGED <<baseVars, worldVars, gameVars, connHist, dlHist>>
    ELSE /\ nConnects < MaxConnects
         /\ LET sock == nConnects + 1
                pre  == IF hasSocket(tcp) THEN disconnected.out ELSE <<>>
            IN  /\ tcp' = sock
                /\ udp' = IF hasSocket(tcp) THEN disconnected.udp ELSE udp
                /\ multicast' = sock
                /\ connected' = IF hasSocket(tcp) THEN disconnected.connected
                                                  ELSE connected
                /\ sources' = (IF hasSocket(tcp) THEN disconnected.sources
                                                 ELSE sources) \cup {sock}
                /\ running' = IF hasSocket(tcp) THEN disconnected.running
                                                ELSE running
                /\ handler' = firstHandler
                /\ nConnects' = sock
                /\ out' = pre \o <<SockOp("connect", sock),
                                   SockOp("eventLoop.add", sock)>>
         /\ negEmpty' = 0 /\ wantSent' = 0 /\ dlStarted' = 0 /\ outstanding' = 0
         /\ step' = [act |-> "connect", server |-> server]
         /\ UNCHANGED <<id, worldVars, gameVars, dlHist, helloSock>>

\* The application (re)starts the event loop.
run ==
  /\ ~running
  /\ running' = TRUE
  /\ step' = [act |-> "run"]
  /\ out' = <<>>
  /\ UNCHANGED <<tcp, udp, multicast, connected, id, handler, sources,
                 worldVars, gameVars, connHist, dlHist>>

\* ------------------------------------------------------------ Flag module
\* Abbreviations travel as fixed two-character fields, short ones padded.
LocalFlags == <<<<"G">>, <<"G", "M">>>>

RECURSIVE joinAbbreviations(_)
joinAbbreviations(abbrs) ==
  IF abbrs = <<>> THEN <<>>
  ELSE (IF Len(Head(abbrs)) = 1 THEN Head(abbrs) \o <<Pad>> ELSE Head(abbrs))
       \o joinAbbreviations(Tail(abbrs))

RECURSIVE splitAbbreviations(_)
splitAbbreviations(data) ==
  IF Len(data) < 2 THEN <<>>
  ELSE <<SelectSeq(SubSeq(data, 1, 2), LAMBDA c : c # Pad)>>
       \o splitAbbreviations(SubSeq(data, 3, Len(data)))

\* ------------------------------------------------------------ World module
\* World.loadBinary accepts a blob or raises; a blob holding the byte "X" is
\* the malformed one.
Decodable(data) == \A i \in 1..Len(data) : data[i] # "X"

\* World.Cache over the persistent store.
hasWorld(h)  == cache[h] # Unset
openWorld(h) == Get(cache[h])
storeWorld(h, data) == [cache EXCEPT ![h] = Val(data)]

\* ------------------------------------------------------- StatefulClient
\* negotiateFlags() writing its message twice.
negotiateFlags_twice ==
  <<Write(tcp, [type |-> "MsgNegotiateFlags",
                data |-> joinAbbreviations(LocalFlags)]),
    Write(tcp, [type |-> "MsgNegotiateFlags",
                data |-> joinAbbreviations(LocalFlags)])>>

negotiateFlags ==
  <<Write(tcp, [type |-> "MsgNegotiateFlags",
                data |-> joinAbbreviations(LocalFlags)])>>

getWorldHash == <<Write(tcp, [type |-> "MsgWantWHash"])>>

\* onNegotiateFlags asking for the hash twice.
onNegotiateFlags_twice ==
  <<Emit("onNegotiateFlags")>> \o getWorldHash \o getWorldHash

onNegotiateFlags == <<Emit("onNegotiateFlags")>> \o getWorldHash

\* The event loop calls the socket's handler when the socket is readable.
Readable == running /\ tcp # NoSocket /\ tcp \in sources

\* handleHelloPacket without its version test.
versionMismatch_unchecked(hello) == FALSE

\* The version test of handleHelloPacket.
versionMismatch(hello) == hello.version # protocolVersion

handleHelloPacket(hello) ==
  /\ Readable /\ handler = "handleHelloPacket"
  /\ step' = [act |-> "handleHelloPacket", msg |-> hello]
  /\ helloSock' = IF hello.version = protocolVersion THEN tcp ELSE helloSock
  /\ IF versionMismatch(hello)
       THEN /\ out' = protocolError(<<hello.version, protocolVersion>>)
            /\ UNCHANGED <<baseVars>>
       ELSE /\ id' = Val(hello.clientId)
            /\ connected' = 1
            /\ handler' = "handleMessage"
            /\ out' = <<Emit("onConnect")>> \o negotiateFlags
            /\ UNCHANGED <<tcp, udp, multicast, sources, running>>
  /\ UNCHANGED <<worldVars, gameVars, dlHist, nConnects, negEmpty, wantSent,
                 dlStarted, outstanding>>

\* Network.Endpoint.handleMessage reads one message and calls on<MsgName>.
Dispatch == Readable /\ handler = "handleMessage"

onMsgSuperKill ==
  /\ Dispatch
  /\ tcp' = disconnected.tcp
  /\ udp' = disconnected.udp
  /\ multicast' = disconnected.multicast
  /\ connected' = disconnected.connected
  /\ sources' = disconnected.sources
  /\ running' = disconnected.running
  /\ handler' = NoAttr
  /\ outstanding' = 0
  /\ step' = [act |-> "onMsgSuperKill"]
  /\ out' = disconnected.out
  /\ UNCHANGED <<id, worldVars, gameVars, dlHist, nConnects, helloSock,
                 negEmpty, wantSent, dlStarted>>

\* onMsgNegotiateFlags taking any response for an empty one.
flagsMissing_unchecked(unknownFlags) == FALSE

\* The test of onMsgNegotiateFlags: the server named flags we lack.
flagsMissing(unknownFlags) == unknownFlags # <<>>

onMsgNegotiateFlags(msg) ==
  /\ Dispatch
  /\ step' = [act |-> "onMsgNegotiateFlags", msg |-> msg]
  /\ LET unknownFlags == splitAbbreviations(msg.data)
     IN  /\ unknownFlags = <<>> => negEmpty < MaxNegotiate
         /\ negEmpty' = negEmpty + (IF unknownFlags = <<>> THEN 1 ELSE 0)
         /\ IF flagsMissing(unknownFlags)
              THEN out' = protocolError(unknownFlags)
              ELSE out' = onNegotiateFlags
  /\ wantSent' = wantSent + Len(Written(out', "MsgWantWHash"))
  /\ UNCHANGED <<baseVars, worldVars, gameVars, nConnects, helloSock,
                 dlStarted, outstanding, dlHist>>

\* downloadWorld(): effects, in order (without the request, in the variant).
downloadWorld_noRequest == <<Emit("onStartWorldDownload")>>

downloadWorld ==
  <<Emit("onStartWorldDownload"), Write(tcp, [type |-> "MsgGetWorld", offset |-> 0])>>

\* onMsgWantWHash: the cache object chosen for a lifetime, and the test that
\* takes the cached world.
cacheFor_always(lifetime) == "Cache"

cacheFor(lifetime) == IF lifetime = "permanent" THEN "Cache" ELSE "None"

useCachedWorld_never(wc, h) == FALSE

useCachedWorld(wc, h) == wc = "Cache" /\ hasWorld(h)

onMsgWantWHash(msg) ==
  /\ Dispatch
  /\ step' = [act |-> "onMsgWantWHash", msg |-> msg]
  /\ worldCache' = cacheFor(msg.lifetime)
  /\ worldHash' = msg.hash
  /\ lastWHash' = [lifetime |-> msg.lifetime,
                   hit |-> msg.lifetime = "permanent" /\ hasWorld(msg.hash)]
  /\ UNCHANGED gameVars
  /\ IF useCachedWorld(worldCache', msg.hash)
       THEN LET data == openWorld(msg.hash)
                ops  == <<CacheOp("hasWorld", msg.hash),
                          CacheOp("openWorld", msg.hash), Load(data)>>
            IN  /\ IF Decodable(data)
                     THEN /\ world' = Val(data)
                          /\ out' = ops \o <<Emit("onLoadWorld")>>
                     ELSE /\ world' = world
                          /\ out' = ops \o <<Raise("WorldError", data)>>
                /\ UNCHANGED <<baseVars, connHist, binaryWorld, worldDownloaded,
                               cache, nDownloads, received>>
       ELSE /\ nDownloads < MaxDownloads
            /\ nDownloads' = nDownloads + 1
            /\ out' = (IF worldCache' = "Cache"
                         THEN <<CacheOp("hasWorld", msg.hash)>> ELSE <<>>)
                      \o downloadWorld
            /\ binaryWorld' = Val(<<>>)
            /\ received' = <<>>
            /\ dlStarted' = dlStarted + 1
            /\ outstanding' = outstanding + Len(GetWorlds(out'))
            /\ UNCHANGED <<baseVars, worldDownloaded, world, cache, nConnects,
                           helloSock, negEmpty, wantSent>>

\* onMsgGetWorld: the append, the test for more data, the next offset, and
\* `del self.binaryWorld` (kept, in the variant).
appendChunk_prepend(buf, data) == data \o buf

appendChunk(buf, data) == buf \o data

moreRemaining_always(msg) == TRUE

moreRemaining(msg) == msg.remaining # 0

nextOffset_zero(buf) == 0

nextOffset(buf) == Len(buf)

\* `if self.worldCache:` before the store (never taken, in the variant).
storesWorld_never(wc) == FALSE

storesWorld(wc) == wc = "Cache"

consumed_kept(buf) == Val(buf)

consumed(buf) == Unset

onMsgGetWorld(msg) ==
  /\ Dispatch
  /\ step' = [act |-> "onMsgGetWorld", msg |-> msg]
  /\ IF binaryWorld = Unset
       THEN /\ out' = <<Raise("AttributeError", <<"binaryWorld">>)>>
            /\ UNCHANGED <<baseVars, worldVars, dlHist, nConnects, helloSock,
                           negEmpty, wantSent, dlStarted>>
       ELSE LET buf == appendChunk(Get(binaryWorld), msg.data)
            IN  /\ Len(Get(binaryWorld)) + Len(msg.data) <= MaxBuf
                /\ received' = received \o msg.data
                /\ IF moreRemaining(msg)
                     THEN /\ binaryWorld' = Val(buf)
                          /\ out' = <<Write(tcp, [type |-> "MsgGetWorld",
                                                  offset |-> nextOffset(buf)])>>
                          /\ UNCHANGED <<worldDownloaded, world, cache>>
                     ELSE /\ cache' = IF storesWorld(worldCache)
                                        THEN storeWorld(worldHash, buf)
                                        ELSE cache
                          /\ LET ops == (IF storesWorld(worldCache)
                                           THEN <<Store(worldHash, buf)>> ELSE <<>>)
                                        \o <<Load(buf)>>
                             IN  IF Decodable(buf)
                                   THEN /\ world' = Val(buf)
                                        /\ binaryWorld' = consumed(buf)
                                        /\ worldDownloaded' = Val(1)
                                        /\ out' = ops \o <<Del("binaryWorld"),
                                                           Emit("onLoadWorld")>>
                                   ELSE /\ world' = world
                                        /\ binaryWorld' = Val(buf)
                                        /\ worldDownloaded' = worldDownloaded
                                        /\ out' = ops \o <<Raise("WorldError", buf)>>
                /\ UNCHANGED <<baseVars, worldCache, worldHash, nConnects,
                               helloSock, negEmpty, wantSent, dlStarted,
                               nDownloads, lastWHash>>
  /\ outstanding' = (IF outstanding > 0 THEN outstanding - 1 ELSE 0)
                     + Len(GetWorlds(out'))
  /\ UNCHANGED gameVars

\* onMsgLagPing: the reply (none, in the variant).
lagPingReply_none(msg) == <<>>

lagPingReply(msg) == <<Write(msg.socket, [type |-> "MsgLagPing",
                                          payload |-> msg.payload])>>

onMsgLagPing(msg) ==
  /\ Dispatch
  /\ msg.socket = tcp
  /\ step' = [act |-> "onMsgLagPing", msg |-> msg]
  /\ out' = lagPingReply(msg)
  /\ UNCHANGED <<baseVars, worldVars, gameVars, connHist, dlHist>>

\* ------------------------------------------------------------- Game model
\* Game.addPlayer, Game.removePlayer, Player.updateFromMessage, Game.getFlag
\* and Flag.updateFromMessage over the two maps of the game.
addPlayer(pid, player) == [players EXCEPT ![pid] = Val(player)]

removePlayer(pid) == [players EXCEPT ![pid] = Unset]

updatePlayer(pid, data) == [players EXCEPT ![pid] = Val(data)]

\* getFlag returns flag number `num` as an instance of `cls`, made anew when
\* there is none of that class; updateFromMessage then takes the status.
updatedFlag(num, cls, status) ==
  [flags EXCEPT ![num] = Val([cls |-> cls, status |-> status])]

onMsgAddPlayer(msg) ==
  /\ Dispatch
  /\ step' = [act |-> "onMsgAddPlayer", msg |-> msg]
  /\ players' = addPlayer(msg.id, msg.data)
  /\ out' = <<>>
  /\ UNCHANGED <<baseVars, worldVars, flags, connHist, dlHist>>

onMsgRemovePlayer(msg) ==
  /\ Dispatch
  /\ step' = [act |-> "onMsgRemovePlayer", msg |-> msg]
  /\ players' = removePlayer(msg.id)
  /\ out' = <<>>
  /\ UNCHANGED <<baseVars, worldVars, flags, connHist, dlHist>>

\* onMsgPlayerUpdate: self.game.players[msg.id] raises no KeyError (never
\* raises, in the variant).
knownPlayer_always(pid) == TRUE

knownPlayer(pid) == players[pid] # Unset

onMsgPlayerUpdate(msg) ==
  /\ Dispatch
  /\ step' = [act |-> "onMsgPlayerUpdate", msg |-> msg]
  /\ players' = IF knownPlayer(msg.id) THEN updatePlayer(msg.id, msg.data)
                                       ELSE players
  /\ out' = <<>>
  /\ UNCHANGED <<baseVars, worldVars, flags, connHist, dlHist>>

\* Values as the wire decoder hands them over: a string or a number.
Str(s) == [kind |-> "str", v |-> s]
Num(n) == [kind |-> "int", v |-> n]

\* Flag.getDict(): its keys are the abbreviations negotiateFlags() joins.
FlagDict == {Str(LocalFlags[i]) : i \in 1..Len(LocalFlags)}

\* msg.update.id: two abbreviations, one of them not in the dictionary, and
\* a number.
UpdateIds == {Str(<<"G">>), Str(<<"C">>), Num(5)}

\* "... %d ... %d" % (args): %d formats a number and raises TypeError for
\* anything else.
formatsAsD(args) == \A i \in 1..Len(args) : args[i].kind = "int"

\* updateFlag: Flag.getDict()[msg.update.id] raises no KeyError.
knownFlagId(fid) == fid \in FlagDict

updateFlag(name, msg) ==
  /\ Dispatch
  /\ step' = [act |-> name, msg |-> msg]
  /\ IF knownFlagId(msg.update.id)
       THEN /\ flags' = updatedFlag(msg.flagNum, msg.update.id, msg.update.status)
            /\ out' = <<>>
       ELSE /\ flags' = flags
            /\ out' = IF formatsAsD(<<Num(msg.flagNum), msg.update.id>>)
                        THEN <<Raise("ProtocolWarning",
                                     <<Num(msg.flagNum), msg.update.id>>)>>
                        ELSE <<Raise("TypeError",
                                     <<Num(msg.flagNum), msg.update.id>>)>>
  /\ UNCHANGED <<baseVars, worldVars, players, connHist, dlHist>>

onMsgFlagUpdate(msg) == updateFlag("onMsgFlagUpdate", msg)

onMsgGrabFlag(msg) == updateFlag("onMsgGrabFlag", msg)

onMsgDropFlag(msg) == updateFlag("onMsgDropFlag", msg)

\* The messages a server can send, as the decoder hands them to the handlers.
HelloMsgs == {[version |-> v, clientId |-> c] : v \in Versions, c \in ClientIds}

WantWHashMsgs == {[lifetime |-> l, hash |-> h] : l \in Lifetimes, h \in Hashes}

GetWorldMsgs == {[data |-> d, remaining |-> r] : d \in Payloads, r \in Remainings}

PlayerMsgs == {[id |-> i, data |-> d] : i \in PlayerIds, d \in PlayerData}

\* Every operation, driven by an arbitrary server.
Next ==
  \/ \E server \in Servers : connect(server)
  \/ disconnect
  \/ run
  \/ \E m \in HelloMsgs : handleHelloPacket(m)
  \/ onMsgSuperKill
  \/ \E d \in FlagData : onMsgNegotiateFlags([data |-> d])
  \/ \E m \in {w \in WantWHashMsgs : w.hash = "h1"} : onMsgWantWHash(m)
  \/ \E m \in GetWorldMsgs : onMsgGetWorld(m)

Spec == Init /\ [][Next]_vars

\* The world transfer over every hash: the client connects and reconnects
\* (each reconnect disconnects first), the server sends world messages only.
NextWorld ==
  \/ connect("srv")
  \/ run
  \/ \E m \in {h \in HelloMsgs : h.clientId = 7} : handleHelloPacket(m)
  \/ \E m \in WantWHashMsgs : onMsgWantWHash(m)
  \/ \E m \in GetWorldMsgs : onMsgGetWorld(m)

SpecWorld == Init /\ [][NextWorld]_vars

\* The game messages: one connection after another, the download of a
\* temporary world under way, and the player, flag and lag ping messages.
LagPayloads == {<<"A">>, <<"A", "X">>}

FlagMsgs ==
  {[flagNum |-> n, update |-> [id |-> i, status |-> st]] :
     n \in FlagNums, i \in UpdateIds, st \in FlagStates}

NextGame ==
  \/ connect("srv")
  \/ run
  \/ \E m \in {h \in HelloMsgs : h.version = "v1" /\ h.clientId = 7} :
        handleHelloPacket(m)
  \/ \E m \in {w \in WantWHashMsgs : w.lifetime = "temporary" /\ w.hash = "h1"} :
        onMsgWantWHash(m)
  \/ \E m \in {g \in GetWorldMsgs : g.data = <<"A">> /\ g.remaining = 1} :
        onMsgGetWorld(m)
  \/ \E p \in LagPayloads : onMsgLagPing([payload |-> p, socket |-> tcp])
  \/ \E m \in PlayerMsgs : onMsgAddPlayer(m)
  \/ \E i \in PlayerIds : onMsgRemovePlayer([id |-> i])
  \/ \E m \in PlayerMsgs : onMsgPlayerUpdate(m)
  \/ \E m \in FlagMsgs : onMsgFlagUpdate(m)
  \/ \E m \in {f \in FlagMsgs : f.update.status = "onTank"} : onMsgGrabFlag(m)
  \/ \E m \in {f \in FlagMsgs : f.update.status = "onGround"} : onMsgDropFlag(m)

SpecGame == Init /\ [][NextGame]_vars

\* A server that keeps to the protocol: it sends the hello, and then one
\* answer to each request the client wrote last - an empty MsgNegotiateFlags,
\* the hash of its world, the chunk at the offset asked for.  Its world is
\* finite and goes out one byte per chunk.
WorldOf(h) == IF h = "h1" THEN <<"A", "A">> ELSE <<"A", "X">>

chunkAt(h, offset) ==
  [data |-> <<WorldOf(h)[offset + 1]>>,
   remaining |-> Len(WorldOf(h)) - offset - 1]

answerConnect(hello) ==
  /\ hello.version = protocolVersion
  /\ handleHelloPacket(hello)

answerNegotiateFlags ==
  /\ Written(out, "MsgNegotiateFlags") # <<>>
  /\ onMsgNegotiateFlags([data |-> <<>>])

answerWantWHash(lifetime, h) ==
  /\ Written(out, "MsgWantWHash") # <<>>
  /\ onMsgWantWHash([lifetime |-> lifetime, hash |-> h])

answerGetWorld ==
  /\ GetWorlds(out) # <<>>
  /\ GetWorlds(out)[1].msg.offset < Len(WorldOf(worldHash))
  /\ onMsgGetWorld(chunkAt(worldHash, GetWorlds(out)[1].msg.offset))

NextServed ==
  \/ connect("srv")
  \/ run
  \/ \E m \in HelloMsgs : answerConnect(m)
  \/ answerNegotiateFlags
  \/ \E l \in Lifetimes, h \in Hashes : answerWantWHash(l, h)
  \/ answerGetWorld

\* Every MsgGetWorld is answered.
SpecServed == Init /\ [][NextServed]_vars /\ WF_vars(answerGetWorld)

\* ================================================================ claims
Has(o, P(_)) == \E i \in 1..Len(o) : P(o[i])
Emitted(o, ev) == Has(o, LAMBDA e : e.op = "emit" /\ e.ev = ev)
Raised(o, err) == Has(o, LAMBDA e : e.op = "raise" /\ e.err = err)
Wrote(o) == Has(o, LAMBDA e : e.op = "write")

C2_MismatchChangesNothing ==
  [][(step'.act = "handleHelloPacket" /\ step'.msg.version # protocolVersion)
       => /\ out' = <<Raise("ProtocolError",
                            <<step'.msg.version, protocolVersion>>)>>
          /\ connected' = 0 /\ connected = 0
          /\ id' = id
          /\ handler' = "handleHelloPacket"]_vars

\* A mismatching hello carrying an id other than the one stored earlier.
C2_Witness ==
  /\ step.act = "handleHelloPacket" /\ step.msg.version # protocolVersion
  /\ id # Unset /\ step.msg.clientId \notin id
  /\ Raised(out, "ProtocolError")

\* C3 as stated: on one connection at most one MsgWantWHash is written, and
\* none before an empty MsgNegotiateFlags response.
C3_ExactlyOneWantWHash ==
  /\ wantSent <= 1
  /\ wantSent >= 1 => negEmpty >= 1

\* C3 amended: every empty MsgNegotiateFlags response is answered by exactly
\* one MsgWantWHash, and MsgWantWHash is written by nothing else: on a
\* connection as many were written as empty responses were received.
C3_OneWantWHashPerEmptyResponse ==
  /\ wantSent = negEmpty
  /\ Written(out, "MsgWantWHash") # <<>>
       => /\ step.act = "onMsgNegotiateFlags"
          /\ splitAbbreviations(step.msg.data) = <<>>
          /\ Len(Written(out, "MsgWantWHash")) = 1
  /\ (step.act = "onMsgNegotiateFlags"
        /\ splitAbbreviations(step.msg.data) = <<>>)
       => Len(Written(out, "MsgWantWHash")) = 1

\* Two empty responses on one connection, two requests.
C3_Witness ==
  /\ step.act = "onMsgNegotiateFlags" /\ negEmpty = 2 /\ wantSent = 2

\* C4: a MsgNegotiateFlags response naming flags ends in a ProtocolError that
\* carries exactly those flags, and in nothing else: no MsgWantWHash is
\* written and onNegotiateFlags is not emitted.
C4_UnknownFlagsRaise ==
  (step.act = "onMsgNegotiateFlags"
     /\ splitAbbreviations(step.msg.data) # <<>>)
    => out = <<Raise("ProtocolError", splitAbbreviations(step.msg.data))>>

\* The response "C_GM" raised an error naming C and GM.
C4_Witness ==
  /\ step.act = "onMsgNegotiateFlags"
  /\ Raised(out, "ProtocolError")
  /\ out[1].info = <<<<"C">>, <<"G", "M">>>>

\* The last step handled a MsgWantWHash of a permanent world the cache held.
CacheHit ==
  /\ step.act = "onMsgWantWHash" /\ step.msg.lifetime = "permanent"
  /\ hasWorld(step.msg.hash)

\* The last step handled the final chunk of a download.
FinalChunk ==
  /\ step.act = "onMsgGetWorld" /\ step.msg.remaining = 0
  /\ ~Raised(out, "AttributeError")

\* C5 as stated: on a permanent MsgWantWHash whose hash the cache holds, the
\* world is loaded from the cached bytes and onLoadWorld is emitted; no
\* MsgGetWorld is written and onStartWorldDownload is not emitted.
C5_CacheHitLoadsWorld ==
  CacheHit
    => /\ world = cache[step.msg.hash]
       /\ Emitted(out, "onLoadWorld")
       /\ GetWorlds(out) = <<>>
       /\ ~Emitted(out, "onStartWorldDownload")

\* C5 amended: on such a response the cached bytes, and nothing else, go to
\* loadBinary, no MsgGetWorld is written and onStartWorldDownload is not
\* emitted; the world is loaded and onLoadWorld emitted when loadBinary
\* accepts the bytes, and when it raises neither happens.
C5_CacheHitSkipsDownload ==
  CacheHit
    => LET data == openWorld(step.msg.hash)
           ops  == <<CacheOp("hasWorld", step.msg.hash),
                     CacheOp("openWorld", step.msg.hash), Load(data)>>
       IN  /\ GetWorlds(out) = <<>>
           /\ ~Emitted(out, "onStartWorldDownload")
           /\ IF Decodable(data)
                THEN world = Val(data) /\ out = ops \o <<Emit("onLoadWorld")>>
                ELSE out = ops \o <<Raise("WorldError", data)>>

\* The world under h2 was taken from the cache while h1 holds another one.
C5_Witness ==
  /\ CacheHit /\ step.msg.hash = "h2"
  /\ Emitted(out, "onLoadWorld") /\ world = cache["h2"]
  /\ cache["h1"] # Unset /\ cache["h1"] # cache["h2"]

\* C6 as stated: when the download started by a permanent MsgWantWHash that
\* missed the cache ends, the bytes in the cache under its hash and the
\* bytes decoded into the world are the payloads received, joined in
\* order, and onLoadWorld is emitted after the store and the decode.
C6_DownloadStoredAndLoaded ==
  (FinalChunk /\ lastWHash.lifetime = "permanent" /\ ~lastWHash.hit)
    => /\ cache[worldHash] = Val(received)
       /\ world = Val(received)
       /\ out = <<Store(worldHash, received), Load(received),
                  Del("binaryWorld"), Emit("onLoadWorld")>>

\* C6 amended: the bytes stored under the hash and the bytes given to
\* loadBinary are the payloads joined in order, the store first; when
\* loadBinary accepts them they are the world, the buffer is deleted and
\* onLoadWorld is emitted last; when it raises, nothing follows.
C6_DownloadStoredThenDecoded ==
  (FinalChunk /\ lastWHash.lifetime = "permanent" /\ ~lastWHash.hit)
    => /\ cache[worldHash] = Val(received)
       /\ IF Decodable(received)
            THEN /\ world = Val(received)
                 /\ out = <<Store(worldHash, received), Load(received),
                            Del("binaryWorld"), Emit("onLoadWorld")>>
            ELSE out = <<Store(worldHash, received), Load(received),
                         Raise("WorldError", received)>>

\* Two chunks, "A" then "A" again under h2, were stored and loaded.
C6_Witness ==
  /\ FinalChunk /\ lastWHash.lifetime = "permanent" /\ ~lastWHash.hit
  /\ worldHash = "h2" /\ received = <<"A", "A">> /\ step.msg.data = <<"A">>
  /\ cache["h2"] = Val(received) /\ cache["h1"] = Unset
  /\ Emitted(out, "onLoadWorld")

\* C7: the cache is looked up or written only while the last MsgWantWHash
\* response said permanent; after a temporary one there is no cache object,
\* so no lookup is made and the finished download is not stored.
C7_CacheOnlyWhenPermanent ==
  /\ Has(out, LAMBDA e : e.op \in {"hasWorld", "openWorld", "storeWorld"})
       => lastWHash.lifetime = "permanent"
  /\ lastWHash.lifetime = "temporary" => worldCache = "None"
  /\ (FinalChunk /\ lastWHash.lifetime = "temporary")
       => out[1] = Load(received)

\* On the second connection a temporary world was downloaded and not stored,
\* though the cache holds the permanent world of the first connection.
C7_Witness ==
  /\ FinalChunk /\ lastWHash.lifetime = "temporary" /\ tcp = 2
  /\ cache["h1"] # Unset /\ cache["h1"] # Val(received)
  /\ world = Val(received)

\* C8 as stated: disconnect() during a download discards the transfer
\* buffer.
C8_DisconnectDiscardsBuffer ==
  step.act = "disconnect" => binaryWorld = Unset

\* C9: while a download runs the buffer is as long as the payloads appended
\* since downloadWorld() are together; downloadWorld() asks for offset 0 and
\* every later MsgGetWorld for the length the buffer has when it is written.
C9_BufferLengthAndOffsets ==
  /\ binaryWorld # Unset => Len(Get(binaryWorld)) = Len(received)
  /\ step.act = "onMsgWantWHash"
       => \A i \in 1..Len(GetWorlds(out)) :
             /\ GetWorlds(out)[i].msg.offset = 0
             /\ binaryWorld = Val(<<>>)
  /\ step.act = "onMsgGetWorld"
       => \A i \in 1..Len(GetWorlds(out)) :
             /\ binaryWorld # Unset
             /\ GetWorlds(out)[i].msg.offset = Len(Get(binaryWorld))
             /\ GetWorlds(out)[i].msg.offset = Len(received)

\* After one chunk of two bytes the next request asks for offset 2.
C9_Witness ==
  /\ step.act = "onMsgGetWorld" /\ step.msg.data = <<"A", "X">>
  /\ GetWorlds(out) # <<>> /\ GetWorlds(out)[1].msg.offset = 2
  /\ received = <<"A", "X">>

\* C10 as stated: at most one MsgGetWorld is outstanding at any time.
C10_OneOutstanding == outstanding <= 1

\* C10 amended: MsgGetWorld is written only by onMsgWantWHash starting a
\* download and by onMsgGetWorld after it appended a chunk that says more
\* remains, once per message handled; so handling a chunk never leaves more
\* requests outstanding than before (or than one), and a second request
\* becomes outstanding only when a MsgWantWHash response starts a download.
C10_SequentialWithinDownload ==
  [][/\ GetWorlds(out') # <<>>
          => /\ Len(GetWorlds(out')) = 1
             /\ \/ step'.act = "onMsgWantWHash"
                \/ /\ step'.act = "onMsgGetWorld" /\ step'.msg.remaining # 0
                   /\ out' = GetWorlds(out')
                   /\ binaryWorld' = Val(received')
     /\ step'.act = "onMsgGetWorld"
          => outstanding' <= (IF outstanding > 1 THEN outstanding ELSE 1)
     /\ (outstanding' > 1 /\ outstanding' > outstanding)
          => step'.act = "onMsgWantWHash"]_vars

\* The second chunk of a download was answered with the third request.
C10_Witness ==
  /\ step.act = "onMsgGetWorld" /\ GetWorlds(out) # <<>>
  /\ received = <<"A", "X">> /\ step.msg.data = <<"X">>
  /\ outstanding = 1 /\ dlStarted = 1

C12_DisconnectIdempotent ==
  [][(step'.act = "disconnect"
        /\ (step.act = "disconnect" \/ (tcp = NoSocket /\ udp = NoSocket)))
       => /\ out' = <<Emit("onDisconnect"), [op |-> "eventLoop.stop"]>>
          /\ tcp' = NoSocket /\ udp' = NoSocket /\ multicast' = NoSocket
          /\ connected = 0 /\ connected' = 0
          /\ sources' = sources
          /\ UNCHANGED <<id, worldVars, gameVars>>]_vars

\* disconnect() ran with no socket held, on a client that had been connected
\* and in the middle of a download.
C12_Witness ==
  /\ step.act = "disconnect" /\ out = onDisconnect
  /\ helloSock = 1 /\ nConnects = 1 /\ id # Unset
  /\ tcp = NoSocket /\ connected = 0 /\ binaryWorld # Unset

\* C13: connect() while a socket is held first does what disconnect() does:
\* the old socket is closed and removed from the event loop, connected is 0,
\* onDisconnect is emitted; only then the new socket is connected, added
\* and given the hello handler.  The event loop never holds two sockets.
C13_ConnectDisconnectsFirst ==
  [][/\ (step'.act = "connect" /\ step'.server # "" /\ tcp # NoSocket)
          => /\ out' = <<SockOp("close", tcp), SockOp("eventLoop.remove", tcp),
                         Emit("onDisconnect"), [op |-> "eventLoop.stop"],
                         SockOp("connect", tcp'), SockOp("eventLoop.add", tcp')>>
             /\ tcp' # tcp /\ tcp' # NoSocket
             /\ sources' = {tcp'}
             /\ connected' = 0
             /\ handler' = "handleHelloPacket"
     /\ Cardinality(sources') <= 1 /\ sources' \subseteq {tcp'}]_vars

\* connect() was called on a connected client in the middle of a download.
C13_Witness ==
  /\ step.act = "connect" /\ Len(out) = 6 /\ out[3] = Emit("onDisconnect")
  /\ tcp = 2 /\ sources = {2} /\ helloSock = 1 /\ connected = 0
  /\ binaryWorld # Unset /\ handler = "handleHelloPacket"

\* C14: connect() without a server raises and does nothing else: no socket
\* is opened or added, nothing is closed, tcp, connected and the handler
\* are as before and onDisconnect is not emitted.
C14_NoServerChangesNothing ==
  [][(step'.act = "connect" /\ step'.server = "")
       => /\ out' = <<Raise("NetworkException",
                            <<"A server must be specified">>)>>
          /\ UNCHANGED <<tcp, udp, multicast, connected, id, handler, sources,
                         running, worldVars, gameVars, nConnects>>]_vars

\* connect() without a server was called on a connected, running client.
C14_Witness ==
  /\ step.act = "connect" /\ step.server = ""
  /\ Raised(out, "NetworkException")
  /\ tcp = 1 /\ connected = 1 /\ handler = "handleMessage"
  /\ sources = {1} /\ running

\* C15: a ProtocolError (hello of another version, MsgNegotiateFlags naming
\* flags) is raised and nothing is torn down: the socket stays open and in
\* the event loop, onDisconnect is not emitted, connected is what it was
\* (0 in the first case, 1 in the second); the socket goes only when
\* disconnect() runs - called directly, by connect() or by onMsgSuperKill.
C15_NoAutoDisconnect ==
  [][/\ (step'.act = "handleHelloPacket"
            /\ step'.msg.version # protocolVersion)
          => /\ out' = <<Raise("ProtocolError",
                               <<step'.msg.version, protocolVersion>>)>>
             /\ UNCHANGED baseVars
             /\ tcp' # NoSocket /\ tcp' \in sources' /\ connected' = 0
     /\ (step'.act = "onMsgNegotiateFlags"
            /\ splitAbbreviations(step'.msg.data) # <<>>)
          => /\ out' = <<Raise("ProtocolError",
                               splitAbbreviations(step'.msg.data))>>
             /\ UNCHANGED baseVars
             /\ tcp' # NoSocket /\ tcp' \in sources' /\ connected' = 1
     /\ (tcp # NoSocket /\ tcp' # tcp)
          => step'.act \in {"disconnect", "connect", "onMsgSuperKill"}
     /\ (connected = 1 /\ connected' = 0)
          => step'.act \in {"disconnect", "connect", "onMsgSuperKill"}]_vars

\* On the second connection the negotiation failed and the client is still
\* connected, its socket in the running event loop.
C15_Witness ==
  /\ step.act = "onMsgNegotiateFlags" /\ Raised(out, "ProtocolError")
  /\ tcp = 2 /\ sources = {2} /\ connected = 1 /\ running
  /\ handler = "handleMessage"

\* The last step read the cache or wrote a MsgGetWorld.
WorldAcquired ==
  \/ GetWorlds(out) # <<>>
  \/ Has(out, LAMBDA e : e.op = "openWorld")

\* C16 as stated: the client reads a world from the cache or writes a
\* MsgGetWorld only when, on this connection, the hello matched, an empty
\* MsgNegotiateFlags response was received and a MsgWantWHash was written.
C16_WorldOnlyAfterNegotiation ==
  WorldAcquired
    => /\ helloSock = tcp /\ connected = 1
       /\ negEmpty >= 1 /\ wantSent >= 1

\* C16 amended: what the client sends follows the order of the phases -
\* MsgNegotiateFlags only on the matching hello, MsgWantWHash only after an
\* empty MsgNegotiateFlags response, a cache read or MsgGetWorld only while
\* handling a MsgWantWHash response or a chunk - and no message is
\* dispatched before the hello matched on the connection; but a
\* MsgWantWHash response is acted on whether or not the negotiation and the
\* request went before it.
C16_WorldOnlyAfterHandshake ==
  /\ WorldAcquired
       => /\ helloSock = tcp /\ connected = 1 /\ handler = "handleMessage"
          /\ step.act \in {"onMsgWantWHash", "onMsgGetWorld"}
  /\ Written(out, "MsgNegotiateFlags") # <<>>
       => (step.act = "handleHelloPacket" /\ helloSock = tcp)
  /\ Written(out, "MsgWantWHash") # <<>>
       => (step.act = "onMsgNegotiateFlags" /\ helloSock = tcp /\ negEmpty >= 1)
  /\ step.act \in {"onMsgNegotiateFlags", "onMsgWantWHash", "onMsgGetWorld"}
       => (helloSock = tcp /\ connected = 1)

\* A MsgWantWHash response right after the hello started a download: no
\* MsgNegotiateFlags response had come and no MsgWantWHash had been written.
C16_Witness ==
  /\ step.act = "onMsgWantWHash" /\ GetWorlds(out) # <<>>
  /\ helloSock = tcp /\ connected = 1
  /\ negEmpty = 0 /\ wantSent = 0

C18_UnknownPlayerIgnored ==
  [][(step'.act = "onMsgPlayerUpdate" /\ players[step'.msg.id] = Unset)
       => /\ out' = <<>>
          /\ UNCHANGED <<players, flags, world>>]_vars

\* An update for player 2 came while only player 1 was in the game.
C18_Witness ==
  /\ step.act = "onMsgPlayerUpdate" /\ step.msg.id = 2
  /\ players[2] = Unset /\ players[1] # Unset
  /\ players[1] # Val(step.msg.data)
  /\ flags[0] # Unset /\ out = <<>>

\* The last step handled one of the three flag messages.
FlagStep ==
  step.act \in {"onMsgFlagUpdate", "onMsgGrabFlag", "onMsgDropFlag"}

\* C19 as stated: a flag message whose id the flag dictionary lacks ends in
\* a ProtocolWarning, leaves every flag as it was and the client connected.
C19_UnknownFlagIdWarns ==
  [][(FlagStep' /\ step'.msg.update.id \notin FlagDict)
       => /\ Len(out') = 1 /\ Raised(out', "ProtocolWarning")
          /\ flags' = flags
          /\ connected' = connected /\ tcp' = tcp]_vars

\* C20: a MsgLagPing is answered with one MsgLagPing carrying the payload
\* received, written to the socket it came on, and nothing else changes:
\* not the connection, not the download, not the game.
C20_LagPingEchoed ==
  [][step'.act = "onMsgLagPing"
       => /\ out' = <<Write(step'.msg.socket,
                            [type |-> "MsgLagPing",
                             payload |-> step'.msg.payload])>>
          /\ step'.msg.socket = tcp
          /\ UNCHANGED <<baseVars, worldVars, gameVars, connHist, dlHist>>]_vars

\* The payload "AX" was echoed in the middle of a download, a player and a
\* flag in the game.
C20_Witness ==
  /\ step.act = "onMsgLagPing" /\ step.msg.payload = <<"A", "X">>
  /\ out[1].msg.payload = <<"A", "X">> /\ out[1].sock = tcp
  /\ binaryWorld = Val(<<"A">>) /\ outstanding = 1
  /\ players[1] # Unset /\ flags[1] # Unset

\* C22: with a cache object, the final chunk stores the whole buffer under
\* the world hash first and decodes it second; so when loadBinary raises,
\* the cache holds the rejected bytes, the buffer is still there and
\* onLoadWorld is not emitted; and a permanent MsgWantWHash for a hash whose
\* cached bytes loadBinary rejects takes the cached bytes all the same:
\* nothing is downloaded, the error is raised again.
C22_StoredBeforeDecode ==
  /\ (FinalChunk /\ worldCache = "Cache")
       => /\ Len(out) >= 2
          /\ out[1] = Store(worldHash, received)
          /\ out[2] = Load(received)
          /\ cache[worldHash] = Val(received)
  /\ (FinalChunk /\ worldCache = "Cache" /\ ~Decodable(received))
       => /\ out = <<Store(worldHash, received), Load(received),
                     Raise("WorldError", received)>>
          /\ binaryWorld = Val(received)
          /\ world # Val(received)
  /\ (CacheHit /\ ~Decodable(openWorld(step.msg.hash)))
       => /\ out = <<CacheOp("hasWorld", step.msg.hash),
                     CacheOp("openWorld", step.msg.hash),
                     Load(openWorld(step.msg.hash)),
                     Raise("WorldError", openWorld(step.msg.hash))>>
          /\ world # cache[step.msg.hash]

\* On the second connection the hash of the one download so far, whose
\* bytes "AX" were stored and rejected, was found in the cache.
C22_Witness ==
  /\ CacheHit /\ tcp = 2 /\ nDownloads = 1
  /\ received = <<"A", "X">> /\ cache[step.msg.hash] = Val(received)
  /\ binaryWorld = Val(received)
  /\ Raised(out, "WorldError") /\ GetWorlds(out) = <<>>

\* The onLoadWorld events among the effects `o`.
Loaded(o) == SelectSeq(o, LAMBDA e : e = Emit("onLoadWorld"))

\* C21 as stated: with a server that answers every MsgGetWorld, a
\* MsgWantWHash response handled on a connection is followed, unless that
\* connection is given up, by onLoadWorld; and onLoadWorld is emitted once
\* for it, by the cache hit or by the final chunk and not by both.
C21_WorldEventuallyLoaded ==
  /\ \A c \in 1..MaxConnects :
        (step.act = "onMsgWantWHash" /\ tcp = c)
          ~> (tcp # c \/ Emitted(out, "onLoadWorld"))
  /\ [](Len(Loaded(out)) <= 1)

\* C21 amended: such a response is followed, unless the connection is given
\* up, by the world's bytes going to loadBinary - at once from the cache, or
\* from the buffer when the final chunk has come; onLoadWorld is emitted,
\* once, exactly when loadBinary accepts them, and when it raises
\* WorldError onLoadWorld is not emitted.  A response is answered from the
\* cache or by a download, never both, and after onLoadWorld no request is
\* left unanswered.
C21_WorldEventuallyDecoded ==
  /\ \A c \in 1..MaxConnects :
        (step.act = "onMsgWantWHash" /\ tcp = c)
          ~> (tcp # c \/ Has(out, LAMBDA e : e.op = "loadBinary"))
  /\ [](\A i \in 1..Len(out) :
          out[i].op = "loadBinary"
            => /\ i < Len(out)
               /\ IF Decodable(out[i].data)
                    THEN /\ Len(Loaded(out)) = 1
                         /\ out[Len(out)] = Emit("onLoadWorld")
                         /\ world = Val(out[i].data)
                    ELSE /\ Loaded(out) = <<>>
                         /\ out[Len(out)] = Raise("WorldError", out[i].data))
  /\ [](Loaded(out) # <<>>
          => /\ Has(out, LAMBDA e : e.op = "loadBinary")
             /\ GetWorlds(out) = <<>> /\ outstanding = 0)
  /\ [](step.act = "onMsgWantWHash"
          => (Has(out, LAMBDA e : e.op = "openWorld") <=> GetWorlds(out) = <<>>))

\* On the second connection the world "AA" came in two chunks and was
\* loaded, the first connection having been given up during its download.
C21_Witness ==
  /\ FinalChunk /\ tcp = 2 /\ nDownloads = 2
  /\ received = WorldOf(worldHash) /\ received = <<"A", "A">>
  /\ out[Len(out)] = Emit("onLoadWorld") /\ world = Val(received)
  /\ outstanding = 0 /\ wantSent = 1 /\ negEmpty = 1
====
